---- MODULE Spec2Model ----
(***************************************************************************)
(* Cost rollup and summary engine of infracost's output package            *)
(* (src/unnamed/part_000): outputBreakdown, outputResource,                *)
(* calculateTotalCosts, sortResources, BuildSummary, MergeSummaries and    *)
(* ToOutputFormat; and StateJSONProvider.LoadResources                     *)
(* (src/internal/providers/terraform/state_json_provider.go).              *)
(*                                                                         *)
(* Go values are modelled as follows.                                      *)
(*   *decimal.Decimal, *int, *map   <<>> for nil, <<v>> for a pointer to v *)
(*   decimal.Decimal                an integer (arbitrary precision)       *)
(*   map[string]int / string       a function on the set of its keys      *)
(*   []T                            a sequence; where aliasing matters     *)
(*                                  (ToOutputFormat) a slice header        *)
(*                                  [arr, len] into a heap of arrays       *)
(*   string                         a TLA+ string, compared through Bytes  *)
(***************************************************************************)
EXTENDS Integers, Sequences, FiniteSets

VARIABLES
    projects,       \* []*schema.Project handed to ToOutputFormat
    root,           \* the Root returned by ToOutputFormat
    resources,      \* []*schema.Resource handed to outputBreakdown / BuildSummary
    breakdown,      \* the Breakdown returned by outputBreakdown
    opts,           \* SummaryOptions handed to BuildSummary
    supportedTypes, \* resource types for which terraform.HasSupportedProvider holds
    summary,        \* the Summary returned by BuildSummary
    arr,            \* []Resource handed to sortResources
    groupKey,       \* groupKey handed to sortResources
    sorted,         \* arr after sortResources
    summaries,      \* []*Summary handed to MergeSummaries
    merged,         \* the Summary returned by MergeSummaries
    stateFile,      \* what lies at StateJSONProvider.Path
    loadedProject,  \* the *schema.Project returned by LoadResources
    err,            \* the error returned by LoadResources
    pc              \* "input" before the call, "done" after it

loadVars == <<stateFile, loadedProject, err>>

vars == <<projects, root, resources, breakdown, opts,
          supportedTypes, summary, arr, groupKey, sorted, summaries, merged,
          stateFile, loadedProject, err, pc>>

----------------------------------------------------------------------------
(* Pointers: nil and &v.                                                   *)

Nil == <<>>

Some(v) == <<v>>

IsNil(p) == p = Nil

Deref(p) == p[1]

(* decimalPtr(d): a pointer to a copy of d.                                *)
decimalPtr(d) == Some(d)

----------------------------------------------------------------------------
(* Go's string comparison is bytewise lexicographic.  Bytes gives the      *)
(* bytes of the strings the model uses.                                    *)

Bytes(s) ==
    CASE s = ""   -> <<>>
      [] s = "a"  -> <<97>>
      [] s = "ab" -> <<97, 98>>
      [] s = "b"  -> <<98>>
      [] s = "c"  -> <<99>>
      [] s = "s"  -> <<115>>
      [] s = "t"  -> <<116>>
      [] s = "x"  -> <<120>>
      [] s = "y"  -> <<121>>

RECURSIVE LexLess(_, _)
LexLess(u, v) ==
    IF v = <<>> THEN FALSE
    ELSE IF u = <<>> THEN TRUE
    ELSE IF u[1] # v[1] THEN u[1] < v[1]
    ELSE LexLess(Tail(u), Tail(v))

StrLess(s, t) == LexLess(Bytes(s), Bytes(t))

(* m[k] on a Go map: the zero value "" when the key is missing.            *)
MapGet(m, k) == IF k \in DOMAIN m THEN m[k] ELSE ""

----------------------------------------------------------------------------
(* sortResources: sort.Slice with the comparator of lines 356-369.         *)
(* sort.Slice is not stable: it leaves the slice ordered by the comparator *)
(* and promises nothing about elements the comparator does not tell apart; *)
(* which order they end in depends on the algorithm of the Go release the  *)
(* package is built with.  On a slice shorter than seven elements every    *)
(* release runs insertion sort.  sortResources(rs, gk) is therefore the    *)
(* set of the sequences the call can leave in the slice: one below seven   *)
(* elements, every ordered arrangement from seven elements on.             *)

(* Faulty variant: resources of one group are not compared by name.       *)
lessGroupOnly(ri, rj, gk) ==
    IF gk = "" THEN StrLess(ri.Name, rj.Name)
    ELSE StrLess(MapGet(ri.Metadata, gk), MapGet(rj.Metadata, gk))

less(ri, rj, gk) ==
    IF gk = "" THEN StrLess(ri.Name, rj.Name)
    ELSE IF MapGet(ri.Metadata, gk) = MapGet(rj.Metadata, gk)
         THEN StrLess(ri.Name, rj.Name)
         ELSE StrLess(MapGet(ri.Metadata, gk), MapGet(rj.Metadata, gk))

Swap(s, i, j) == [s EXCEPT ![i] = s[j], ![j] = s[i]]

RECURSIVE InsertDown(_, _, _)
InsertDown(s, j, gk) ==
    IF j > 1 /\ less(s[j], s[j - 1], gk)
    THEN InsertDown(Swap(s, j, j - 1), j - 1, gk)
    ELSE s

RECURSIVE InsertionSortFrom(_, _, _)
InsertionSortFrom(s, i, gk) ==
    IF i > Len(s) THEN s
    ELSE InsertionSortFrom(InsertDown(s, i, gk), i + 1, gk)

Permutations(q) ==
    { [i \in 1..Len(q) |-> q[f[i]]] :
        f \in {g \in [1..Len(q) -> 1..Len(q)] :
                 \A i, j \in 1..Len(q) : i # j => g[i] # g[j]} }

(* The number of leading elements of an ordered s that the comparator does *)
(* not tell apart from s[1].                                               *)
RECURSIVE TiedPrefix(_, _, _)
TiedPrefix(s, n, gk) ==
    IF n < Len(s) /\ ~less(s[1], s[n + 1], gk) THEN TiedPrefix(s, n + 1, gk) ELSE n

(* The arrangements of an ordered s that are ordered too: the elements of  *)
(* each run of tied elements in any order.                                 *)
RECURSIVE TieOrders(_, _)
TieOrders(s, gk) ==
    IF s = <<>> THEN {<<>>}
    ELSE LET n == TiedPrefix(s, 1, gk)
         IN  { run \o rest : run \in Permutations(SubSeq(s, 1, n)),
                             rest \in TieOrders(SubSeq(s, n + 1, Len(s)), gk) }

(* Faulty variant: the sort.Slice call is left out.                        *)
sortResourcesOmitted(rs, gk) == {rs}

sortResources(rs, gk) ==
    IF Len(rs) < 7
    THEN {InsertionSortFrom(rs, 2, gk)}
    ELSE TieOrders(InsertionSortFrom(rs, 2, gk), gk)

----------------------------------------------------------------------------
(* outputResource: the report's Resource for a schema.Resource.  The unit, *)
(* quantity and price of a cost component come from schema methods and are *)
(* carried by no operation modelled here; its name and costs are copied.   *)

EmptyMap == [k \in {} |-> ""]

outputCostComponent(c) ==
    [Name |-> c.Name, HourlyCost |-> c.HourlyCost, MonthlyCost |-> c.MonthlyCost]

RECURSIVE outputResource(_)
outputResource(r) ==
    [Name           |-> r.Name,
     Metadata       |-> EmptyMap,
     Tags           |-> r.Tags,
     HourlyCost     |-> r.HourlyCost,
     MonthlyCost    |-> r.MonthlyCost,
     CostComponents |-> [i \in 1..Len(r.CostComponents) |->
                            outputCostComponent(r.CostComponents[i])],
     SubResources   |-> [i \in 1..Len(r.SubResources) |->
                            outputResource(r.SubResources[i])]]

----------------------------------------------------------------------------
(* calculateTotalCosts: returns <<totalHourlyCost, totalMonthlyCost>>.     *)

AddHourly(total, r) ==
    IF ~IsNil(r.HourlyCost)
    THEN LET seeded == IF IsNil(total) THEN decimalPtr(0) ELSE total
         IN  decimalPtr(Deref(seeded) + Deref(r.HourlyCost))
    ELSE total

AddMonthly(total, r) ==
    IF ~IsNil(r.MonthlyCost)
    THEN LET seeded == IF IsNil(total) THEN decimalPtr(0) ELSE total
         IN  decimalPtr(Deref(seeded) + Deref(r.MonthlyCost))
    ELSE total

RECURSIVE TotalCostsLoop(_, _, _, _)
TotalCostsLoop(rs, i, totalHourlyCost, totalMonthlyCost) ==
    IF i > Len(rs) THEN <<totalHourlyCost, totalMonthlyCost>>
    ELSE TotalCostsLoop(rs, i + 1,
                        AddHourly(totalHourlyCost, rs[i]),
                        AddMonthly(totalMonthlyCost, rs[i]))

(* Faulty variant: the totals start nil instead of zero.                   *)
calculateTotalCostsNilSeed(rs) == TotalCostsLoop(rs, 1, Nil, Nil)

calculateTotalCosts(rs) == TotalCostsLoop(rs, 1, decimalPtr(0), decimalPtr(0))

----------------------------------------------------------------------------
(* outputBreakdown: normalize the resources not flagged IsSkipped, sort    *)
(* them by name, total them.  outputBreakdown(rs) is the set of the        *)
(* Breakdowns the call can return, one for each outcome of the sort.       *)

(* Faulty variant: the IsSkipped test is left out.                         *)
RECURSIVE NormalizeAll(_, _, _)
NormalizeAll(rs, i, acc) ==
    IF i > Len(rs) THEN acc
    ELSE NormalizeAll(rs, i + 1, Append(acc, outputResource(rs[i])))

RECURSIVE NormalizeLoop(_, _, _)
NormalizeLoop(rs, i, acc) ==
    IF i > Len(rs) THEN acc
    ELSE IF rs[i].IsSkipped THEN NormalizeLoop(rs, i + 1, acc)
    ELSE NormalizeLoop(rs, i + 1, Append(acc, outputResource(rs[i])))

PackBreakdown(normalized) ==
    LET totals           == calculateTotalCosts(normalized)
        totalMonthlyCost == totals[1]
        totalHourlyCost  == totals[2]
    IN  [Resources        |-> normalized,
         TotalHourlyCost  |-> totalMonthlyCost,
         TotalMonthlyCost |-> totalHourlyCost]

outputBreakdown(rs) ==
    { PackBreakdown(normalized) :
        normalized \in sortResources(NormalizeLoop(rs, 1, <<>>), "") }

----------------------------------------------------------------------------
(* BuildSummary.                                                           *)

EmptyCounts == [k \in {} |-> 0]

MapSet(m, k, v) == [x \in DOMAIN m \cup {k} |-> IF x = k THEN v ELSE m[x]]

(* Faulty variant: the first resource of a type only creates the key.     *)
MapIncFirstLost(m, k) ==
    IF k \in DOMAIN m THEN MapSet(m, k, m[k] + 1) ELSE MapSet(m, k, 0)

(* if _, ok := m[k]; !ok { m[k] = 0 }; m[k]++                              *)
MapInc(m, k) ==
    LET present == IF k \in DOMAIN m THEN m ELSE MapSet(m, k, 0)
    IN  MapSet(present, k, present[k] + 1)

contains(list, e) == \E i \in 1..Len(list) : list[i] = e

(* terraform.HasSupportedProvider lives outside the files at hand: it is a *)
(* predicate of the resource type alone, here membership in supportedTypes.*)
HasSupportedProvider(resourceType) == resourceType \in supportedTypes

(* Faulty variant: the IsSkipped branch is left out.                       *)
ClassifyWithoutSkipped(c, r) ==
    IF r.NoPrice
    THEN [c EXCEPT !.totalNoPriceResources = @ + 1]
    ELSE [c EXCEPT !.totalSupportedResources = @ + 1,
                   !.supportedResourceCounts = MapInc(@, r.ResourceType)]

Classify(c, r) ==
    IF r.NoPrice
    THEN [c EXCEPT !.totalNoPriceResources = @ + 1]
    ELSE IF r.IsSkipped
    THEN [c EXCEPT !.totalUnsupportedResources = @ + 1,
                   !.unsupportedResourceCounts = MapInc(@, r.ResourceType)]
    ELSE [c EXCEPT !.totalSupportedResources = @ + 1,
                   !.supportedResourceCounts = MapInc(@, r.ResourceType)]

RECURSIVE CountLoop(_, _, _, _)
CountLoop(rs, i, o, c) ==
    IF i > Len(rs) THEN c
    ELSE IF ~o.IncludeUnsupportedProviders /\ ~HasSupportedProvider(rs[i].ResourceType)
    THEN CountLoop(rs, i + 1, o, c)
    ELSE CountLoop(rs, i + 1, o, Classify(c, rs[i]))

ZeroCounts ==
    [supportedResourceCounts   |-> EmptyCounts,
     unsupportedResourceCounts |-> EmptyCounts,
     totalSupportedResources   |-> 0,
     totalUnsupportedResources |-> 0,
     totalNoPriceResources     |-> 0]

(* len(opts.OnlyFields) == 0 || contains(opts.OnlyFields, selector)        *)
Selected(o, selector) == Len(o.OnlyFields) = 0 \/ contains(o.OnlyFields, selector)

TotalResourcesSelector == "Total"

BuildSummary(rs, o) ==
    LET c              == CountLoop(rs, 1, o, ZeroCounts)
        totalResources == Len(rs)
    IN  [SupportedResourceCounts |->
            IF Selected(o, "SupportedResourceCounts")
            THEN Some(c.supportedResourceCounts) ELSE Nil,
         UnsupportedResourceCounts |->
            IF Selected(o, "UnsupportedResourceCounts")
            THEN Some(c.unsupportedResourceCounts) ELSE Nil,
         TotalSupportedResources |->
            IF Selected(o, "TotalSupportedResources")
            THEN Some(c.totalSupportedResources) ELSE Nil,
         TotalUnsupportedResources |->
            IF Selected(o, "TotalUnsupportedResources")
            THEN Some(c.totalUnsupportedResources) ELSE Nil,
         TotalNoPriceResources |->
            IF Selected(o, "TotalNoPriceResources")
            THEN Some(c.totalNoPriceResources) ELSE Nil,
         TotalResources |->
            IF Selected(o, TotalResourcesSelector)
            THEN Some(totalResources) ELSE Nil]

----------------------------------------------------------------------------
(* MergeSummaries, mergeCounts, addIntPtrs.                                *)

mergeCounts(c1, c2) ==
    IF IsNil(c1) /\ IsNil(c2) THEN Nil
    ELSE LET copied == IF ~IsNil(c1) THEN Deref(c1) ELSE EmptyCounts
             added  == IF ~IsNil(c2)
                       THEN [k \in DOMAIN copied \cup DOMAIN Deref(c2) |->
                               (IF k \in DOMAIN copied THEN copied[k] ELSE 0)
                               + (IF k \in DOMAIN Deref(c2) THEN Deref(c2)[k] ELSE 0)]
                       ELSE copied
         IN  Some(added)

(* Faulty variant: a nil on either side makes the sum nil.                 *)
addIntPtrsNilWins(i1, i2) ==
    IF IsNil(i1) \/ IsNil(i2) THEN Nil ELSE Some(Deref(i1) + Deref(i2))

addIntPtrs(i1, i2) ==
    IF IsNil(i1) /\ IsNil(i2) THEN Nil
    ELSE LET val1 == IF ~IsNil(i1) THEN Deref(i1) ELSE 0
             val2 == IF ~IsNil(i2) THEN Deref(i2) ELSE 0
         IN  Some(val1 + val2)

EmptySummary ==
    [SupportedResourceCounts   |-> Nil,
     UnsupportedResourceCounts |-> Nil,
     TotalSupportedResources   |-> Nil,
     TotalUnsupportedResources |-> Nil,
     TotalNoPriceResources     |-> Nil,
     TotalResources            |-> Nil]

MergeInto(m, s) ==
    [SupportedResourceCounts |->
        mergeCounts(m.SupportedResourceCounts, s.SupportedResourceCounts),
     UnsupportedResourceCounts |->
        mergeCounts(m.UnsupportedResourceCounts, s.UnsupportedResourceCounts),
     TotalSupportedResources |->
        addIntPtrs(m.TotalSupportedResources, s.TotalSupportedResources),
     TotalUnsupportedResources |->
        addIntPtrs(m.TotalUnsupportedResources, s.TotalUnsupportedResources),
     TotalNoPriceResources |->
        addIntPtrs(m.TotalNoPriceResources, s.TotalNoPriceResources),
     TotalResources |->
        addIntPtrs(m.TotalResources, s.TotalResources)]

RECURSIVE MergeLoop(_, _, _)
MergeLoop(ss, i, m) ==
    IF i > Len(ss) THEN m
    ELSE IF IsNil(ss[i]) THEN MergeLoop(ss, i + 1, m)
    ELSE MergeLoop(ss, i + 1, MergeInto(m, Deref(ss[i])))

MergeSummaries(ss) == MergeLoop(ss, 1, EmptySummary)

----------------------------------------------------------------------------
(* Slices.  ToOutputFormat appends every project's breakdown.Resources to  *)
(* outResources and sorts outResources in place, so whether the two share  *)
(* a backing array decides what the breakdowns hold afterwards.  A heap is *)
(* a sequence of backing arrays, a slice is [arr, len] with the capacity   *)
(* the length of its array.                                                *)

ZeroResource ==
    [Name           |-> "",
     Metadata       |-> EmptyMap,
     Tags           |-> EmptyMap,
     HourlyCost     |-> Nil,
     MonthlyCost    |-> Nil,
     CostComponents |-> <<>>,
     SubResources   |-> <<>>]

Zeros(n) == [i \in 1..n |-> ZeroResource]

SliceRead(heap, s) == SubSeq(heap[s.arr], 1, s.len)

SliceCap(heap, s) == Len(heap[s.arr])

(* make([]Resource, 0, c)                                                  *)
MakeSlice(heap, c) ==
    [heap  |-> Append(heap, Zeros(c)),
     slice |-> [arr |-> Len(heap) + 1, len |-> 0]]

(* Capacity chosen by append when the array is full (runtime.growslice,    *)
(* before the rounding up to an allocation size class).                    *)
GrowCap(old, needed) == IF needed > old + old THEN needed ELSE old + old

(* Faulty variant: appending to an empty slice returns the appended slice  *)
(* itself, backing array included, instead of a copy.                      *)
AppendSliceShared(heap, s, t) ==
    IF s.len = 0 THEN [heap |-> heap, slice |-> t]
    ELSE LET elems  == SliceRead(heap, t)
             needed == s.len + Len(elems)
         IN  IF needed <= SliceCap(heap, s)
             THEN [heap  |-> [heap EXCEPT ![s.arr] =
                                 [i \in 1..Len(@) |->
                                     IF i > s.len /\ i <= needed
                                     THEN elems[i - s.len] ELSE @[i]]],
                   slice |-> [arr |-> s.arr, len |-> needed]]
             ELSE [heap  |-> Append(heap,
                                 SliceRead(heap, s) \o elems
                                 \o Zeros(GrowCap(SliceCap(heap, s), needed) - needed)),
                   slice |-> [arr |-> Len(heap) + 1, len |-> needed]]

(* append(s, t...)                                                         *)
AppendSlice(heap, s, t) ==
    LET elems  == SliceRead(heap, t)
        needed == s.len + Len(elems)
    IN  IF needed <= SliceCap(heap, s)
        THEN [heap  |-> [heap EXCEPT ![s.arr] =
                            [i \in 1..Len(@) |->
                                IF i > s.len /\ i <= needed
                                THEN elems[i - s.len] ELSE @[i]]],
              slice |-> [arr |-> s.arr, len |-> needed]]
        ELSE [heap  |-> Append(heap,
                            SliceRead(heap, s) \o elems
                            \o Zeros(GrowCap(SliceCap(heap, s), needed) - needed)),
              slice |-> [arr |-> Len(heap) + 1, len |-> needed]]

(* sortResources(s, gk) on a slice: its elements are permuted in place.    *)
(* The heaps the call can leave.                                           *)
SortSlice(heap, s, gk) ==
    { [heap EXCEPT ![s.arr] = ordered \o SubSeq(@, s.len + 1, Len(@))] :
        ordered \in sortResources(SubSeq(heap[s.arr], 1, s.len), gk) }

(* outputBreakdown with its slice on the heap: arr is made with capacity   *)
(* len(resources) and holds the resources that are not skipped.            *)
StoreBreakdown(heap, c, b) ==
    [heap |-> Append(heap, b.Resources \o Zeros(c - Len(b.Resources))),
     ref  |-> Some([Resources        |-> [arr |-> Len(heap) + 1, len |-> Len(b.Resources)],
                    TotalHourlyCost  |-> b.TotalHourlyCost,
                    TotalMonthlyCost |-> b.TotalMonthlyCost])]

AllocBreakdown(heap, rs) ==
    { StoreBreakdown(heap, Len(rs), b) : b \in outputBreakdown(rs) }

(* The Breakdown a reference denotes in a heap.                            *)
LoadBreakdown(heap, p) ==
    IF IsNil(p) THEN Nil
    ELSE Some([Resources        |-> SliceRead(heap, Deref(p).Resources),
               TotalHourlyCost  |-> Deref(p).TotalHourlyCost,
               TotalMonthlyCost |-> Deref(p).TotalMonthlyCost])

----------------------------------------------------------------------------
(* ToOutputFormat.  l holds the heap and the function's locals; each       *)
(* statement maps l to l, or, where it sorts, to the set of the l it can   *)
(* leave.                                                                  *)

outputVersion == "0.1"

(* if total == nil { total = decimalPtr(decimal.Zero) }; total += *cost    *)
AddTotal(total, cost) ==
    IF ~IsNil(cost)
    THEN LET seeded == IF IsNil(total) THEN decimalPtr(0) ELSE total
         IN  decimalPtr(Deref(seeded) + Deref(cost))
    ELSE total

(* outResources := make([]Resource, 0)                                     *)
Locals ==
    [heap              |-> MakeSlice(<<>>, 0).heap,
     outResources      |-> MakeSlice(<<>>, 0).slice,
     totalHourlyCost   |-> Nil,
     totalMonthlyCost  |-> Nil,
     pastBreakdown     |-> Nil,
     breakdown         |-> Nil,
     diff              |-> Nil,
     outProjectResults |-> <<>>]

SetBreakdown(l, a) == [l EXCEPT !.heap = a.heap, !.breakdown = a.ref]

SetPastBreakdown(l, a) == [l EXCEPT !.heap = a.heap, !.pastBreakdown = a.ref]

SetDiff(l, a) == [l EXCEPT !.heap = a.heap, !.diff = a.ref]

SetOutResources(l, a) == [l EXCEPT !.heap = a.heap, !.outResources = a.slice]

(* var pastBreakdown, breakdown, diff *Breakdown                           *)
(* breakdown = outputBreakdown(project.Resources)                          *)
StmtBreakdown(l, project) ==
    { SetBreakdown([l EXCEPT !.pastBreakdown = Nil, !.diff = Nil], a) :
        a \in AllocBreakdown(l.heap, project.Resources) }

(* if project.HasDiff { pastBreakdown = ...; diff = ... }                  *)
StmtPast(l, project) ==
    IF project.HasDiff
    THEN { SetPastBreakdown(l, a) : a \in AllocBreakdown(l.heap, project.PastResources) }
    ELSE {l}

StmtDiff(l, project) ==
    IF project.HasDiff
    THEN { SetDiff(l, a) : a \in AllocBreakdown(l.heap, project.Diff) }
    ELSE {l}

(* outResources = append(outResources, breakdown.Resources...)             *)
StmtAppend(l) ==
    IF ~IsNil(l.breakdown)
    THEN SetOutResources(l, AppendSlice(l.heap, l.outResources,
                                        Deref(l.breakdown).Resources))
    ELSE l

(* Faulty variant: each total accumulates the other breakdown total.      *)
StmtTotalsCrossed(l) ==
    IF ~IsNil(l.breakdown)
    THEN [l EXCEPT
            !.totalHourlyCost  = AddTotal(@, Deref(l.breakdown).TotalMonthlyCost),
            !.totalMonthlyCost = AddTotal(@, Deref(l.breakdown).TotalHourlyCost)]
    ELSE l

StmtTotals(l) ==
    IF ~IsNil(l.breakdown)
    THEN [l EXCEPT
            !.totalHourlyCost  = AddTotal(@, Deref(l.breakdown).TotalHourlyCost),
            !.totalMonthlyCost = AddTotal(@, Deref(l.breakdown).TotalMonthlyCost)]
    ELSE l

StmtResult(l, project) ==
    [l EXCEPT !.outProjectResults = Append(@,
        [ProjectName     |-> project.Name,
         ProjectMetadata |-> project.Metadata,
         PastBreakdown   |-> l.pastBreakdown,
         Breakdown       |-> l.breakdown,
         Diff            |-> l.diff,
         Summary         |-> BuildSummary(project.Resources,
                                [IncludeUnsupportedProviders |-> FALSE,
                                 OnlyFields |-> <<"UnsupportedResourceCounts">>]),
         fullSummary     |-> BuildSummary(project.Resources,
                                [IncludeUnsupportedProviders |-> TRUE,
                                 OnlyFields |-> <<>>])])]

(* The breakdowns of one project: current, past, diff.                     *)
StmtBreakdowns(l, project) ==
    UNION { UNION { StmtDiff(l2, project) : l2 \in StmtPast(l1, project) } :
            l1 \in StmtBreakdown(l, project) }

ProjectStep(l, project) ==
    { StmtResult(StmtTotals(StmtAppend(l3)), project) :
        l3 \in StmtBreakdowns(l, project) }

(* ls: the locals the iterations so far can have left.                     *)
RECURSIVE ProjectLoop(_, _, _)
ProjectLoop(ps, i, ls) ==
    IF i > Len(ps) THEN ls
    ELSE ProjectLoop(ps, i + 1, UNION { ProjectStep(l, ps[i]) : l \in ls })

(* sortResources(outResources, "")                                         *)
StmtSort(l) ==
    { [l EXCEPT !.heap = heap] : heap \in SortSlice(l.heap, l.outResources, "") }

(* The Root returned, with every slice read from the final heap.           *)
MakeRoot(l) ==
    [Version          |-> outputVersion,
     Resources        |-> SliceRead(l.heap, l.outResources),
     TotalHourlyCost  |-> l.totalHourlyCost,
     TotalMonthlyCost |-> l.totalMonthlyCost,
     ProjectResults   |->
        [i \in 1..Len(l.outProjectResults) |->
            [l.outProjectResults[i] EXCEPT
                !.PastBreakdown = LoadBreakdown(l.heap, @),
                !.Breakdown     = LoadBreakdown(l.heap, @),
                !.Diff          = LoadBreakdown(l.heap, @)]]]

ToOutputFormat(ps) ==
    { MakeRoot(sorted_l) :
        sorted_l \in UNION { StmtSort(l) : l \in ProjectLoop(ps, 1, {Locals}) } }

----------------------------------------------------------------------------
(* Inputs.                                                                 *)

MaxSortLen == 3
MaxResources == 3
MaxSummaryResources == 3
MaxSummaries == 3
MaxProjects == 2
MaxLoaded == 3

SeqsUpTo(S, n) == UNION {[1..k -> S] : k \in 0..n}

SchemaResource(name, type, skipped, noPrice, hourly, monthly, comps, subs) ==
    [Name           |-> name,
     ResourceType   |-> type,
     Tags           |-> EmptyMap,
     IsSkipped      |-> skipped,
     NoPrice        |-> noPrice,
     HourlyCost     |-> hourly,
     MonthlyCost    |-> monthly,
     CostComponents |-> comps,
     SubResources   |-> subs]

Component == [Name |-> "c", HourlyCost |-> Some(1), MonthlyCost |-> Nil]

SubSkipped ==
    SchemaResource("t", "aws_ebs_volume", TRUE, FALSE, Some(3), Some(30), <<>>, <<>>)

SubPriced ==
    SchemaResource("s", "aws_ebs_volume", FALSE, FALSE, Some(1), Some(10), <<>>, <<>>)

SubDeep ==
    SchemaResource("s", "aws_ebs_volume", FALSE, FALSE, Nil, Nil, <<>>, <<SubSkipped>>)

(* Cost and content variants of a top-level resource.                      *)
Variants ==
    { [h |-> Some(1), m |-> Some(10), comps |-> <<Component>>, subs |-> <<>>],
      [h |-> Nil,     m |-> Some(20), comps |-> <<>>,          subs |-> <<SubSkipped>>],
      [h |-> Some(2), m |-> Nil,      comps |-> <<>>,          subs |-> <<SubDeep>>],
      [h |-> Nil,     m |-> Nil,      comps |-> <<>>,          subs |-> <<SubPriced>>] }

(* Resources handed to outputBreakdown.                                    *)
BreakdownInputs ==
    { SchemaResource(n, "aws_instance", sk, FALSE, v.h, v.m, v.comps, v.subs) :
        n \in {"a", "b"}, sk \in BOOLEAN, v \in Variants }

(* Resources handed to sortResources: normalized, with metadata.           *)
SortInputs ==
    { [ZeroResource EXCEPT !.Name = n, !.Metadata = md] :
        n \in {"a", "ab", "b"},
        md \in { EmptyMap, [k \in {"g"} |-> ""], [k \in {"g"} |-> "x"] } }

(* Lists of seven resources: five of different names between two of       *)
(* SortInputs, which the comparator may or may not tell apart.             *)
Padding ==
    << [ZeroResource EXCEPT !.Name = "y"],
       [ZeroResource EXCEPT !.Name = "c", !.Metadata = [k \in {"g"} |-> "x"]],
       [ZeroResource EXCEPT !.Name = "t"],
       [ZeroResource EXCEPT !.Name = "s", !.Metadata = [k \in {"g"} |-> ""]],
       [ZeroResource EXCEPT !.Name = "x"] >>

LongSortInputs == { <<p>> \o Padding \o <<q>> : p, q \in SortInputs }

GroupKeys == {"", "g"}

(* Resources handed to BuildSummary.                                       *)
ResourceTypes == {"aws_instance", "null_resource"}

SummaryInputs ==
    { SchemaResource("a", t, sk, np, Nil, Nil, <<>>, <<>>) :
        t \in ResourceTypes, sk \in BOOLEAN, np \in BOOLEAN }

FieldNames ==
    {"SupportedResourceCounts", "UnsupportedResourceCounts",
     "TotalSupportedResources", "TotalUnsupportedResources",
     "TotalNoPriceResources", "TotalResources"}

OnlyFieldsInputs ==
    {<<>>}
    \cup {<<f>> : f \in FieldNames \cup {"Total"}}
    \cup { <<"TotalSupportedResources", "TotalResources">>,
           <<"SupportedResourceCounts", "UnsupportedResourceCounts",
             "TotalSupportedResources", "TotalUnsupportedResources",
             "TotalNoPriceResources", "TotalResources">>,
           <<"SupportedResourceCounts", "UnsupportedResourceCounts",
             "TotalSupportedResources", "TotalUnsupportedResources",
             "TotalNoPriceResources", "Total">> }

SummaryOptions ==
    [IncludeUnsupportedProviders : BOOLEAN, OnlyFields : OnlyFieldsInputs]

(* Summaries handed to MergeSummaries: nil, or one of these.               *)
CountVariants ==
    { [s |-> Nil,                                   u |-> Nil],
      [s |-> Some(EmptyCounts),                     u |-> Some([k \in {"b"} |-> 1])],
      [s |-> Some([k \in {"a"} |-> 1]),             u |-> Nil],
      [s |-> Some([k \in {"a", "b"} |-> IF k = "a" THEN 2 ELSE 1]),
                                                    u |-> Some([k \in {"a"} |-> 1])] }

TotalVariants ==
    { [ts |-> Nil,     tu |-> Nil,     tn |-> Nil,     tr |-> Nil],
      [ts |-> Some(0), tu |-> Some(1), tn |-> Nil,     tr |-> Some(1)],
      [ts |-> Some(2), tu |-> Nil,     tn |-> Some(3), tr |-> Some(5)] }

SummaryPointers ==
    {Nil} \cup
    { Some([SupportedResourceCounts   |-> c.s,
            UnsupportedResourceCounts |-> c.u,
            TotalSupportedResources   |-> t.ts,
            TotalUnsupportedResources |-> t.tu,
            TotalNoPriceResources     |-> t.tn,
            TotalResources            |-> t.tr]) :
        c \in CountVariants, t \in TotalVariants }

(* Resources and projects handed to ToOutputFormat.                        *)
ReportInputs ==
    { SchemaResource("a", "aws_instance", FALSE, FALSE, Some(1), Some(10), <<Component>>, <<>>),
      SchemaResource("a", "aws_instance", FALSE, FALSE, Nil, Some(20), <<>>, <<>>),
      SchemaResource("b", "aws_instance", FALSE, FALSE, Some(2), Nil, <<>>, <<SubPriced>>),
      SchemaResource("c", "null_resource", TRUE, FALSE, Some(5), Some(50), <<>>, <<>>),
      SchemaResource("b", "aws_instance", FALSE, TRUE, Nil, Nil, <<>>, <<>>) }

PastResource ==
    SchemaResource("x", "aws_instance", FALSE, FALSE, Some(100), Some(1000), <<>>, <<>>)

DiffResource ==
    SchemaResource("y", "aws_instance", FALSE, FALSE, Some(200), Some(2000), <<>>, <<>>)

(* A project as ToOutputFormat is handed it: HasDiff and Diff have been   *)
(* set, or left unset, by the caller before the report is built.           *)
ProjectVariants ==
    { [Name |-> "p", HasDiff |-> FALSE, PastResources |-> <<PastResource>>, Diff |-> <<>>],
      [Name |-> "q", HasDiff |-> TRUE,  PastResources |-> <<PastResource>>,
                                        Diff |-> <<DiffResource>>] }

Project(v, rs) ==
    [Name          |-> v.Name,
     Metadata      |-> EmptyMap,
     Resources     |-> rs,
     PastResources |-> v.PastResources,
     Diff          |-> v.Diff,
     HasDiff       |-> v.HasDiff]

(* The number of resources of the first n projects of a list whose        *)
(* projects hold lens[1], lens[2], ... resources.                          *)
RECURSIVE Loaded(_, _)
Loaded(lens, n) == IF n = 0 THEN 0 ELSE Loaded(lens, n - 1) + lens[n]

(* The project list whose i-th project is of variant vs[i] and holds the   *)
(* next lens[i] resources of all.                                          *)
ProjectList(vs, lens, all) ==
    [i \in 1..Len(vs) |->
        Project(vs[i], SubSeq(all, Loaded(lens, i - 1) + 1, Loaded(lens, i)))]

(* What LoadResources finds at Path: a file that cannot be read, one that  *)
(* cannot be parsed, or one that parser.parseJSON turns into past and      *)
(* current resources.                                                      *)
StatePath == "p"

StateFiles ==
    { [readable |-> FALSE, wellFormed |-> FALSE, pastResources |-> <<>>, resources |-> <<>>],
      [readable |-> TRUE,  wellFormed |-> FALSE, pastResources |-> <<>>, resources |-> <<>>] }
    \cup
    { [readable |-> TRUE, wellFormed |-> TRUE, pastResources |-> past, resources |-> rs] :
         past \in {<<>>, <<PastResource>>},
         rs \in SeqsUpTo(ReportInputs, 1) }

----------------------------------------------------------------------------
(* Specifications.  Each function is called once on an input drawn in the  *)
(* initial state; the variables of the other functions stay idle.          *)

IdleReport == projects = <<>> /\ root = Nil

IdleBreakdown == breakdown = Nil

IdleSummary ==
    /\ opts = [IncludeUnsupportedProviders |-> FALSE, OnlyFields |-> <<>>]
    /\ summary = Nil

IdleSort == arr = <<>> /\ groupKey = "" /\ sorted = <<>>

IdleMerge == summaries = <<>> /\ merged = Nil

IdleLoad ==
    /\ stateFile = [readable |-> FALSE, wellFormed |-> FALSE,
                    pastResources |-> <<>>, resources |-> <<>>]
    /\ loadedProject = Nil /\ err = Nil

(* ToOutputFormat.                                                         *)
Init ==
    /\ \E n \in 0..MaxProjects :
       \E vs \in [1..n -> ProjectVariants], lens \in [1..n -> 0..MaxLoaded] :
          /\ Loaded(lens, n) <= MaxLoaded
          /\ \E all \in [1..Loaded(lens, n) -> ReportInputs] :
                projects = ProjectList(vs, lens, all)
    /\ root = Nil /\ pc = "input"
    /\ resources = <<>> /\ supportedTypes = {"aws_instance"}
    /\ IdleBreakdown /\ IdleSummary /\ IdleSort /\ IdleMerge /\ IdleLoad

CallToOutputFormat ==
    /\ pc = "input"
    /\ \E r \in ToOutputFormat(projects) : root' = Some(r)
    /\ pc' = "done"
    /\ UNCHANGED loadVars
    /\ UNCHANGED <<projects, resources, breakdown, opts, supportedTypes, summary,
                   arr, groupKey, sorted, summaries, merged>>

Next == CallToOutputFormat

Spec == Init /\ [][Next]_vars

(* StateJSONProvider.LoadResources.                                        *)
NewProject(name, metadata) ==
    [Name          |-> name,
     Metadata      |-> metadata,
     Resources     |-> <<>>,
     PastResources |-> <<>>,
     Diff          |-> <<>>,
     HasDiff       |-> FALSE]

InitLoad ==
    /\ stateFile \in StateFiles
    /\ loadedProject = Nil /\ err = Nil /\ pc = "input"
    /\ resources = <<>> /\ supportedTypes = {}
    /\ IdleReport /\ IdleBreakdown /\ IdleSummary /\ IdleSort /\ IdleMerge

LoadResources ==
    /\ pc = "input"
    /\ LET new == NewProject(StatePath, EmptyMap)
       IN  IF ~stateFile.readable
           THEN /\ loadedProject' = Some(new)
                /\ err' = Some("Error reading Terraform state JSON file")
           ELSE IF ~stateFile.wellFormed
           THEN /\ loadedProject' = Some(new)
                /\ err' = Some("Error parsing Terraform state JSON file")
           ELSE /\ loadedProject' = Some([new EXCEPT !.PastResources = stateFile.pastResources,
                                                      !.Resources = stateFile.resources])
                /\ err' = Nil
    /\ pc' = "done"
    /\ UNCHANGED <<projects, root, resources, breakdown, opts, supportedTypes, summary,
                   arr, groupKey, sorted, summaries, merged, stateFile>>

NextLoad == LoadResources

SpecLoad == InitLoad /\ [][NextLoad]_vars

(* outputBreakdown.                                                        *)
InitBreakdown ==
    /\ resources \in SeqsUpTo(BreakdownInputs, MaxResources)
    /\ breakdown = Nil /\ pc = "input"
    /\ supportedTypes = {}
    /\ IdleReport /\ IdleSummary /\ IdleSort /\ IdleMerge /\ IdleLoad

CallOutputBreakdown ==
    /\ pc = "input"
    /\ \E b \in outputBreakdown(resources) : breakdown' = Some(b)
    /\ pc' = "done"
    /\ UNCHANGED loadVars
    /\ UNCHANGED <<projects, root, resources, opts, supportedTypes, summary,
                   arr, groupKey, sorted, summaries, merged>>

NextBreakdown == CallOutputBreakdown

SpecBreakdown == InitBreakdown /\ [][NextBreakdown]_vars

(* sortResources.                                                          *)
InitSort ==
    /\ arr \in SeqsUpTo(SortInputs, MaxSortLen) \cup LongSortInputs
    /\ groupKey \in GroupKeys
    /\ sorted = <<>> /\ pc = "input"
    /\ resources = <<>> /\ supportedTypes = {}
    /\ IdleReport /\ IdleBreakdown /\ IdleSummary /\ IdleMerge /\ IdleLoad

CallSortResources ==
    /\ pc = "input"
    /\ sorted' \in sortResources(arr, groupKey)
    /\ pc' = "done"
    /\ UNCHANGED loadVars
    /\ UNCHANGED <<projects, root, resources, breakdown, opts, supportedTypes,
                   summary, arr, groupKey, summaries, merged>>

NextSort == CallSortResources

SpecSort == InitSort /\ [][NextSort]_vars

(* BuildSummary.                                                           *)
InitSummary ==
    /\ resources \in SeqsUpTo(SummaryInputs, MaxSummaryResources)
    /\ opts \in SummaryOptions
    /\ supportedTypes \in SUBSET ResourceTypes
    /\ summary = Nil /\ pc = "input"
    /\ IdleReport /\ IdleBreakdown /\ IdleSort /\ IdleMerge /\ IdleLoad

CallBuildSummary ==
    /\ pc = "input"
    /\ summary' = Some(BuildSummary(resources, opts))
    /\ pc' = "done"
    /\ UNCHANGED loadVars
    /\ UNCHANGED <<projects, root, resources, breakdown, opts, supportedTypes,
                   arr, groupKey, sorted, summaries, merged>>

NextSummary == CallBuildSummary

SpecSummary == InitSummary /\ [][NextSummary]_vars

(* MergeSummaries.                                                         *)
InitMerge ==
    /\ summaries \in SeqsUpTo(SummaryPointers, MaxSummaries)
    /\ merged = Nil /\ pc = "input"
    /\ resources = <<>> /\ supportedTypes = {}
    /\ IdleReport /\ IdleBreakdown /\ IdleSummary /\ IdleSort /\ IdleLoad

CallMergeSummaries ==
    /\ pc = "input"
    /\ merged' = Some(MergeSummaries(summaries))
    /\ pc' = "done"
    /\ UNCHANGED loadVars
    /\ UNCHANGED <<projects, root, resources, breakdown, opts, supportedTypes,
                   summary, arr, groupKey, sorted, summaries>>

NextMerge == CallMergeSummaries

SpecMerge == InitMerge /\ [][NextMerge]_vars

----------------------------------------------------------------------------
(* Vocabulary of the properties.                                           *)

RECURSIVE SumSeq(_)
SumSeq(q) == IF q = <<>> THEN 0 ELSE Head(q) + SumSeq(Tail(q))

(* The value a cost or count pointer contributes to a sum: nothing if nil. *)
ValueOf(p) == IF IsNil(p) THEN 0 ELSE Deref(p)

SumHourly(rs) == SumSeq([i \in 1..Len(rs) |-> ValueOf(rs[i].HourlyCost)])

SumMonthly(rs) == SumSeq([i \in 1..Len(rs) |-> ValueOf(rs[i].MonthlyCost)])

CountIn(q, x) == Cardinality({i \in 1..Len(q) : q[i] = x})

SameBag(q, r) ==
    /\ Len(q) = Len(r)
    /\ \A i \in 1..Len(q) : CountIn(q, q[i]) = CountIn(r, q[i])

NamesOf(rs) == [i \in 1..Len(rs) |-> rs[i].Name]

RECURSIVE NotSkipped(_)
NotSkipped(rs) ==
    IF rs = <<>> THEN <<>>
    ELSE IF Head(rs).IsSkipped THEN NotSkipped(Tail(rs))
    ELSE <<Head(rs)>> \o NotSkipped(Tail(rs))

(* Names of all nodes of a resource forest, sub-resources included.        *)
RECURSIVE TreeNames(_)
TreeNames(rs) ==
    IF rs = <<>> THEN <<>>
    ELSE <<Head(rs).Name>> \o TreeNames(Head(rs).SubResources) \o TreeNames(Tail(rs))

(* Names of the nodes of a raw forest that are not flagged IsSkipped and   *)
(* have no flagged ancestor.                                               *)
RECURSIVE UnskippedTreeNames(_)
UnskippedTreeNames(rs) ==
    IF rs = <<>> THEN <<>>
    ELSE IF Head(rs).IsSkipped THEN UnskippedTreeNames(Tail(rs))
    ELSE <<Head(rs).Name>> \o UnskippedTreeNames(Head(rs).SubResources)
         \o UnskippedTreeNames(Tail(rs))

RECURSIVE HasSkippedNode(_)
HasSkippedNode(rs) ==
    \E i \in 1..Len(rs) : rs[i].IsSkipped \/ HasSkippedNode(rs[i].SubResources)

Distinct(q) == \A i, j \in 1..Len(q) : i # j => q[i] # q[j]

----------------------------------------------------------------------------
(* Properties of outputBreakdown, under SpecBreakdown.                     *)

TheBreakdown == Deref(breakdown)

(* C1: calculateTotalCosts returns two non-nil totals, the sum of the      *)
(* non-nil HourlyCost values and the sum of the non-nil MonthlyCost values *)
(* of the list (zero for the empty list and for a list of nil costs), and  *)
(* outputBreakdown stores the hourly sum in TotalHourlyCost and the        *)
(* monthly sum in TotalMonthlyCost.                                        *)
C1_TotalsAreSums ==
    pc = "done" =>
        /\ calculateTotalCosts(TheBreakdown.Resources)
             = <<Some(SumHourly(TheBreakdown.Resources)),
                 Some(SumMonthly(TheBreakdown.Resources))>>
        /\ TheBreakdown.TotalHourlyCost = Some(SumHourly(TheBreakdown.Resources))
        /\ TheBreakdown.TotalMonthlyCost = Some(SumMonthly(TheBreakdown.Resources))

(* A breakdown of at least two resources, one without an hourly cost, one  *)
(* without a monthly cost, whose two sums differ.                          *)
C1_Witness ==
    /\ pc = "done"
    /\ Len(TheBreakdown.Resources) >= 2
    /\ \E i \in 1..Len(TheBreakdown.Resources) : IsNil(TheBreakdown.Resources[i].HourlyCost)
    /\ \E i \in 1..Len(TheBreakdown.Resources) : IsNil(TheBreakdown.Resources[i].MonthlyCost)
    /\ SumHourly(TheBreakdown.Resources) > 0
    /\ SumHourly(TheBreakdown.Resources) # SumMonthly(TheBreakdown.Resources)

(* C3 as stated: no resource flagged IsSkipped is in the normalized tree,  *)
(* at the top level or as a sub-resource at any depth, and the totals are  *)
(* those of the top-level resources that are not skipped.                  *)
C3_NoSkippedAtAnyDepth ==
    pc = "done" =>
        /\ SameBag(TreeNames(TheBreakdown.Resources), UnskippedTreeNames(resources))
        /\ TheBreakdown.TotalHourlyCost = Some(SumHourly(NotSkipped(resources)))
        /\ TheBreakdown.TotalMonthlyCost = Some(SumMonthly(NotSkipped(resources)))

(* C3 amended: the top-level Resources are the normalizations of exactly   *)
(* the top-level resources not flagged IsSkipped; each of them keeps all   *)
(* its sub-resources, flagged or not; the totals are those of the          *)
(* top-level resources that are not skipped.                               *)
C3_NoSkippedAtTopLevel ==
    pc = "done" =>
        /\ Len(TheBreakdown.Resources) = Len(NotSkipped(resources))
        /\ SameBag(NamesOf(TheBreakdown.Resources), NamesOf(NotSkipped(resources)))
        /\ SameBag(TreeNames(TheBreakdown.Resources), TreeNames(NotSkipped(resources)))
        /\ TheBreakdown.TotalHourlyCost = Some(SumHourly(NotSkipped(resources)))
        /\ TheBreakdown.TotalMonthlyCost = Some(SumMonthly(NotSkipped(resources)))

(* A skipped top-level resource with costs was left out, and a kept        *)
(* resource carries a sub-resource flagged IsSkipped.                      *)
C3_Witness ==
    /\ pc = "done"
    /\ \E i \in 1..Len(resources) :
          resources[i].IsSkipped /\ ~IsNil(resources[i].MonthlyCost)
    /\ \E i \in 1..Len(resources) :
          ~resources[i].IsSkipped /\ HasSkippedNode(resources[i].SubResources)
    /\ Len(TheBreakdown.Resources) >= 1

(* C8 as stated: two resource lists that are permutations of each other    *)
(* give the identical Breakdown.Resources sequence, also when several      *)
(* resources share a name and differ in cost or content.                   *)
C8_OrderIndependentOfInput ==
    pc = "done" =>
        \A q \in Permutations(resources) :
            \A b \in outputBreakdown(q) : b.Resources = TheBreakdown.Resources

(* C8 amended: permutations give the identical sequence of names, and the  *)
(* identical resource sequence when the names of the resources that are    *)
(* not skipped are pairwise distinct.                                      *)
C8_NamesIndependentOfInput ==
    pc = "done" =>
        \A q \in Permutations(resources) :
            \A b \in outputBreakdown(q) :
                /\ NamesOf(b.Resources) = NamesOf(TheBreakdown.Resources)
                /\ Distinct(NamesOf(NotSkipped(resources)))
                     => b.Resources = TheBreakdown.Resources

(* Sorting moved a resource: the input was not in name order, and two      *)
(* kept resources have different names.                                    *)
C8_Witness ==
    /\ pc = "done"
    /\ Len(TheBreakdown.Resources) >= 2
    /\ Distinct(NamesOf(NotSkipped(resources)))
    /\ NamesOf(NotSkipped(resources)) # NamesOf(TheBreakdown.Resources)

----------------------------------------------------------------------------
(* Properties of sortResources, under SpecSort.                            *)

(* The group a resource sorts under: the value of Metadata[groupKey], the  *)
(* empty string when the key is missing or when groupKey is empty.         *)
GroupOf(r, gk) ==
    IF gk = "" \/ gk \notin DOMAIN r.Metadata THEN "" ELSE r.Metadata[gk]

(* r1 comes strictly before r2 in the order by (group, name).              *)
KeyBefore(r1, r2, gk) ==
    \/ StrLess(GroupOf(r1, gk), GroupOf(r2, gk))
    \/ GroupOf(r1, gk) = GroupOf(r2, gk) /\ StrLess(r1.Name, r2.Name)

(* The sort keys of a list, in order.                                      *)
KeySeq(s, gk) == [i \in 1..Len(s) |-> <<GroupOf(s[i], gk), s[i].Name>>]

(* The list is a permutation of the input, ordered by                      *)
(* (Metadata[groupKey], Name), by Name alone when groupKey is empty, a     *)
(* missing key counting as the empty string; resources of one group are in *)
(* name order.                                                             *)
OrderedPermutation ==
    /\ SameBag(sorted, arr)
    /\ \A i, j \in 1..Len(sorted) :
          i < j => ~KeyBefore(sorted[j], sorted[i], groupKey)
    /\ \A i, j \in 1..Len(sorted) :
          i < j /\ GroupOf(sorted[i], groupKey) = GroupOf(sorted[j], groupKey)
             => ~StrLess(sorted[j].Name, sorted[i].Name)
    /\ groupKey = "" =>
          \A i, j \in 1..Len(sorted) :
              i < j => ~StrLess(sorted[j].Name, sorted[i].Name)

----------------------------------------------------------------------------
(* Properties of BuildSummary, under SpecSummary.                          *)

TheSummary == Deref(summary)

Remove(q, i) == SubSeq(q, 1, i - 1) \o SubSeq(q, i + 1, Len(q))

(* The count a map field holds for a type: zero when the key or the map is *)
(* missing.                                                                *)
CountOf(p, t) ==
    IF IsNil(p) THEN 0
    ELSE IF t \in DOMAIN Deref(p) THEN Deref(p)[t] ELSE 0

RECURSIVE SumCounts(_)
SumCounts(m) ==
    IF DOMAIN m = {} THEN 0
    ELSE LET k == CHOOSE x \in DOMAIN m : TRUE
         IN  m[k] + SumCounts([x \in DOMAIN m \ {k} |-> m[x]])

(* The resource is not dropped by the provider filter.                     *)
PassesFilter(r) ==
    opts.IncludeUnsupportedProviders \/ HasSupportedProvider(r.ResourceType)

(* What resource i adds to the summary: the summary of the list against    *)
(* the summary of the list without it.                                     *)
AddsToSupported(i) ==
    \E t \in ResourceTypes :
        CountOf(TheSummary.SupportedResourceCounts, t)
          # CountOf(BuildSummary(Remove(resources, i), opts).SupportedResourceCounts, t)

AddsToUnsupported(i, n) ==
    /\ ~IsNil(TheSummary.UnsupportedResourceCounts) =>
          /\ CountOf(TheSummary.UnsupportedResourceCounts, resources[i].ResourceType)
               = CountOf(BuildSummary(Remove(resources, i), opts).UnsupportedResourceCounts,
                         resources[i].ResourceType) + n
          /\ \A t \in ResourceTypes \ {resources[i].ResourceType} :
                CountOf(TheSummary.UnsupportedResourceCounts, t)
                  = CountOf(BuildSummary(Remove(resources, i), opts).UnsupportedResourceCounts, t)
    /\ ~IsNil(TheSummary.TotalUnsupportedResources) =>
          Deref(TheSummary.TotalUnsupportedResources)
            = Deref(BuildSummary(Remove(resources, i), opts).TotalUnsupportedResources) + n

(* What resource i adds to a total: n where the summary populates it.      *)
AddsToTotal(field, i, n) ==
    ~IsNil(TheSummary[field]) =>
        Deref(TheSummary[field])
          = Deref(BuildSummary(Remove(resources, i), opts)[field]) + n

(* C2 as stated: whatever the options, a resource flagged IsSkipped is     *)
(* counted in no entry of SupportedResourceCounts and exactly once in      *)
(* UnsupportedResourceCounts[its type] and in TotalUnsupportedResources    *)
(* (read of the fields the summary populates).                             *)
C2_SkippedCountedOnce ==
    pc = "done" =>
        \A i \in 1..Len(resources) :
            resources[i].IsSkipped => ~AddsToSupported(i) /\ AddsToUnsupported(i, 1)

(* C2 amended, each count read where the summary populates the field: a    *)
(* resource flagged IsSkipped is counted in no entry of                    *)
(* SupportedResourceCounts and not in TotalSupportedResources.  If it      *)
(* passes the provider filter and is not flagged NoPrice, it is counted    *)
(* exactly once in UnsupportedResourceCounts[its type] and in              *)
(* TotalUnsupportedResources, and not in TotalNoPriceResources.  If it     *)
(* passes the filter and is flagged NoPrice, it is counted exactly once in *)
(* TotalNoPriceResources and in no unsupported count.  If the filter drops *)
(* it, it is counted in none of the five.                                  *)
C2_SkippedCountedOnceUnlessNoPrice ==
    pc = "done" =>
        \A i \in 1..Len(resources) :
            resources[i].IsSkipped =>
                /\ ~AddsToSupported(i)
                /\ AddsToTotal("TotalSupportedResources", i, 0)
                /\ IF ~PassesFilter(resources[i])
                   THEN AddsToUnsupported(i, 0)
                        /\ AddsToTotal("TotalNoPriceResources", i, 0)
                   ELSE IF resources[i].NoPrice
                   THEN AddsToUnsupported(i, 0)
                        /\ AddsToTotal("TotalNoPriceResources", i, 1)
                   ELSE AddsToUnsupported(i, 1)
                        /\ AddsToTotal("TotalNoPriceResources", i, 0)

(* Every field the claim reads is populated; of three skipped resources    *)
(* one is counted as unsupported, one is flagged NoPrice and counted       *)
(* there, one is dropped by the provider filter.                           *)
C2_Witness ==
    /\ pc = "done"
    /\ ~IsNil(TheSummary.SupportedResourceCounts)
    /\ ~IsNil(TheSummary.UnsupportedResourceCounts)
    /\ ~IsNil(TheSummary.TotalSupportedResources)
    /\ ~IsNil(TheSummary.TotalUnsupportedResources)
    /\ ~IsNil(TheSummary.TotalNoPriceResources)
    /\ \E i \in 1..Len(resources) :
          /\ resources[i].IsSkipped /\ ~resources[i].NoPrice /\ PassesFilter(resources[i])
          /\ CountOf(TheSummary.UnsupportedResourceCounts, resources[i].ResourceType) = 1
          /\ Deref(TheSummary.TotalUnsupportedResources) = 1
    /\ \E i \in 1..Len(resources) :
          /\ resources[i].IsSkipped /\ resources[i].NoPrice /\ PassesFilter(resources[i])
          /\ Deref(TheSummary.TotalNoPriceResources) = 1
    /\ \E i \in 1..Len(resources) :
          resources[i].IsSkipped /\ ~PassesFilter(resources[i])

(* C4 as stated: each of the six fields is non-nil if and only if          *)
(* OnlyFields is empty or contains the name of the field.                  *)
C4_FieldSetIffNamed ==
    pc = "done" =>
        \A f \in FieldNames :
            ~IsNil(TheSummary[f]) <=> (Len(opts.OnlyFields) = 0 \/ contains(opts.OnlyFields, f))

AllFieldsSet == \A f \in FieldNames : ~IsNil(TheSummary[f])

(* C5: when every field of the summary is populated, the three totals add  *)
(* up to the number of resources that pass the provider filter, the values *)
(* of each map add up to its total, and TotalResources is the length of    *)
(* the input whatever the filter dropped.                                  *)
C5_BucketsPartition ==
    pc = "done" /\ AllFieldsSet =>
        /\ Deref(TheSummary.TotalSupportedResources)
             + Deref(TheSummary.TotalUnsupportedResources)
             + Deref(TheSummary.TotalNoPriceResources)
             = Cardinality({i \in 1..Len(resources) : PassesFilter(resources[i])})
        /\ SumCounts(Deref(TheSummary.SupportedResourceCounts))
             = Deref(TheSummary.TotalSupportedResources)
        /\ SumCounts(Deref(TheSummary.UnsupportedResourceCounts))
             = Deref(TheSummary.TotalUnsupportedResources)
        /\ Deref(TheSummary.TotalResources) = Len(resources)

(* Every field is populated, the provider filter dropped a resource, and   *)
(* both maps hold a count.                                                 *)
C5_Witness ==
    /\ pc = "done"
    /\ AllFieldsSet
    /\ ~opts.IncludeUnsupportedProviders
    /\ \E i \in 1..Len(resources) : ~PassesFilter(resources[i])
    /\ Deref(TheSummary.TotalSupportedResources) >= 1
    /\ Deref(TheSummary.TotalUnsupportedResources) >= 1
    /\ Deref(TheSummary.TotalResources) = MaxSummaryResources

----------------------------------------------------------------------------
(* Properties of MergeSummaries, under SpecMerge.                          *)

TheMerged == Deref(merged)

MapFields == {"SupportedResourceCounts", "UnsupportedResourceCounts"}

ScalarFields == FieldNames \ MapFields

(* The inputs that are not nil and hold field f.                           *)
Holding(f) ==
    {i \in 1..Len(summaries) : ~IsNil(summaries[i]) /\ ~IsNil(Deref(summaries[i])[f])}

ScalarSum(f) ==
    SumSeq([i \in 1..Len(summaries) |->
              IF i \in Holding(f) THEN Deref(Deref(summaries[i])[f]) ELSE 0])

KeysOf(f) == UNION {DOMAIN Deref(Deref(summaries[i])[f]) : i \in Holding(f)}

KeySum(f, k) ==
    SumSeq([i \in 1..Len(summaries) |->
              IF i \in Holding(f) /\ k \in DOMAIN Deref(Deref(summaries[i])[f])
              THEN Deref(Deref(summaries[i])[f])[k] ELSE 0])

(* C6: a field of the merged summary is nil iff it is nil in every non-nil *)
(* input; otherwise a scalar is the sum of the values present and a map    *)
(* holds exactly the keys of the inputs, each with the sum of its counts   *)
(* and none with count zero.  Merging nils gives every field nil, merging  *)
(* one summary gives that summary.                                         *)
C6_MergeFieldwise ==
    pc = "done" =>
        /\ \A f \in FieldNames : IsNil(TheMerged[f]) <=> Holding(f) = {}
        /\ \A f \in ScalarFields :
              Holding(f) # {} => Deref(TheMerged[f]) = ScalarSum(f)
        /\ \A f \in MapFields :
              Holding(f) # {} =>
                 /\ DOMAIN Deref(TheMerged[f]) = KeysOf(f)
                 /\ \A k \in KeysOf(f) :
                       Deref(TheMerged[f])[k] = KeySum(f, k) /\ Deref(TheMerged[f])[k] > 0
        /\ (\A i \in 1..Len(summaries) : IsNil(summaries[i]))
              => \A f \in FieldNames : IsNil(TheMerged[f])
        /\ (Len(summaries) = 1 /\ ~IsNil(summaries[1]))
              => TheMerged = Deref(summaries[1])

(* A nil entry and two summaries were merged: a scalar and a map held by   *)
(* one of them only, a map held by both with a key in common.              *)
C6_Witness ==
    /\ pc = "done"
    /\ \E i \in 1..Len(summaries) : IsNil(summaries[i])
    /\ Cardinality(Holding("TotalNoPriceResources")) = 1
    /\ Cardinality(Holding("TotalSupportedResources")) = 2
    /\ Cardinality(Holding("SupportedResourceCounts")) = 2
    /\ \E k \in KeysOf("SupportedResourceCounts") :
          KeySum("SupportedResourceCounts", k) = 3
    /\ Cardinality(Holding("UnsupportedResourceCounts")) = 1
    /\ ~IsNil(TheMerged.UnsupportedResourceCounts)

----------------------------------------------------------------------------
(* Properties of ToOutputFormat, under Spec.                               *)

TheRoot == Deref(root)

Results == TheRoot.ProjectResults

Current(i) == Deref(Results[i].Breakdown)

RECURSIVE Flatten(_)
Flatten(qs) == IF qs = <<>> THEN <<>> ELSE Head(qs) \o Flatten(Tail(qs))

(* The projects whose current breakdown holds an hourly (monthly) total.   *)
HourlyContributors ==
    {i \in 1..Len(Results) :
        ~IsNil(Results[i].Breakdown) /\ ~IsNil(Current(i).TotalHourlyCost)}

MonthlyContributors ==
    {i \in 1..Len(Results) :
        ~IsNil(Results[i].Breakdown) /\ ~IsNil(Current(i).TotalMonthlyCost)}

(* C7: the report-wide totals are the sums of the current breakdowns'      *)
(* totals over all projects, hourly with hourly and monthly with monthly;  *)
(* past and diff breakdowns add nothing; a total is nil exactly when no    *)
(* project contributed one, as for an empty project list, and non-nil      *)
(* (possibly zero) as soon as one project did.                             *)
C7_ReportTotals ==
    pc = "done" =>
        /\ Len(Results) = Len(projects)
        /\ IsNil(TheRoot.TotalHourlyCost) <=> HourlyContributors = {}
        /\ IsNil(TheRoot.TotalMonthlyCost) <=> MonthlyContributors = {}
        /\ HourlyContributors # {} =>
              /\ Deref(TheRoot.TotalHourlyCost)
                   = SumSeq([i \in 1..Len(Results) |-> ValueOf(Current(i).TotalHourlyCost)])
              /\ Deref(TheRoot.TotalHourlyCost)
                   = SumSeq([i \in 1..Len(projects) |->
                               SumHourly(NotSkipped(projects[i].Resources))])
        /\ MonthlyContributors # {} =>
              /\ Deref(TheRoot.TotalMonthlyCost)
                   = SumSeq([i \in 1..Len(Results) |-> ValueOf(Current(i).TotalMonthlyCost)])
              /\ Deref(TheRoot.TotalMonthlyCost)
                   = SumSeq([i \in 1..Len(projects) |->
                               SumMonthly(NotSkipped(projects[i].Resources))])
        /\ projects = <<>> =>
              IsNil(TheRoot.TotalHourlyCost) /\ IsNil(TheRoot.TotalMonthlyCost)
        /\ projects # <<>> =>
              ~IsNil(TheRoot.TotalHourlyCost) /\ ~IsNil(TheRoot.TotalMonthlyCost)

(* Two projects, one without resources and one with a diff, whose hourly   *)
(* and monthly totals are positive and differ.                             *)
C7_Witness ==
    /\ pc = "done"
    /\ Len(projects) = 2
    /\ \E i \in 1..Len(projects) : projects[i].Resources = <<>>
    /\ \E i \in 1..Len(projects) :
          projects[i].HasDiff /\ ~IsNil(Results[i].PastBreakdown)
    /\ Deref(TheRoot.TotalHourlyCost) > 0
    /\ Deref(TheRoot.TotalHourlyCost) # Deref(TheRoot.TotalMonthlyCost)

(* C10: Root.Resources is a permutation of the concatenation of the        *)
(* projects' current Breakdown.Resources (nothing skipped, nothing of a    *)
(* past or diff breakdown), in name order; every project's breakdowns are  *)
(* what outputBreakdown returned, untouched by the flat list's building    *)
(* and sorting; ProjectResults is in the order of the projects.            *)
C10_FlatListAndFrame ==
    pc = "done" =>
        /\ Len(Results) = Len(projects)
        /\ \A i \in 1..Len(projects) : Results[i].ProjectName = projects[i].Name
        /\ SameBag(TheRoot.Resources,
                   Flatten([i \in 1..Len(Results) |-> Current(i).Resources]))
        /\ SameBag(NamesOf(TheRoot.Resources),
                   Flatten([i \in 1..Len(projects) |->
                              NamesOf(NotSkipped(projects[i].Resources))]))
        /\ \A i, j \in 1..Len(TheRoot.Resources) :
              i < j => ~StrLess(TheRoot.Resources[j].Name, TheRoot.Resources[i].Name)
        /\ \A i \in 1..Len(projects) :
              /\ Results[i].Breakdown \in
                    {Some(b) : b \in outputBreakdown(projects[i].Resources)}
              /\ IF projects[i].HasDiff
                    THEN Results[i].PastBreakdown \in
                            {Some(b) : b \in outputBreakdown(projects[i].PastResources)}
                    ELSE IsNil(Results[i].PastBreakdown)
              /\ IF projects[i].HasDiff
                    THEN Results[i].Diff \in
                            {Some(b) : b \in outputBreakdown(projects[i].Diff)}
                    ELSE IsNil(Results[i].Diff)

(* Two projects; the first skipped a resource, so its slice has spare      *)
(* capacity, and the flat list was reordered by the final sort.            *)
C10_Witness ==
    /\ pc = "done"
    /\ Len(projects) = 2
    /\ Len(Current(1).Resources) >= 1
    /\ Len(Current(1).Resources) < Len(projects[1].Resources)
    /\ Len(Current(2).Resources) >= 1
    /\ TheRoot.Resources # Flatten([i \in 1..Len(Results) |-> Current(i).Resources])

====
